---------------------------- MODULE Spec2Model ----------------------------
(***************************************************************************)
(* logmanager: the logging-configuration builder (LogManager and           *)
(* DefaultLogManager, manager.py) and the request-logging middleware       *)
(* (get_client_ip and LogRequestMiddleware, middleware/middleware.py).     *)
(*                                                                         *)
(* Python values are modelled as follows.                                  *)
(*  - A dict is a sequence of entries [k |-> key, v |-> value] in          *)
(*    insertion order (Python dicts keep insertion order; [*d] lists the   *)
(*    keys in that order).                                                 *)
(*  - Dicts that the code shares by reference (self._config and the dicts  *)
(*    stored under its 'handlers' and 'loggers' keys, self._handlers,      *)
(*    self._loggers) live in a heap and are named by object ids, so that   *)
(*    aliasing is visible.                                                 *)
(*  - In the builder an Optional[str] is <<>> for None and <<s>> for the   *)
(*    string s.                                                            *)
(*  - In the middleware a value is a tagged record (PyNone, PyStr, PyInt,  *)
(*    ...) and a str is a sequence of one-character strings, so that       *)
(*    strip() and split(',') are computed character by character.          *)
(***************************************************************************)
EXTENDS Integers, Sequences, FiniteSets, TLC

VARIABLES
    self,       \* the manager's attributes (references are heap object ids)
    heap,       \* object id -> dict object
    returned,   \* the reference each read of .config returned, in order
    lastOp      \* the most recent call made on the manager, with its arguments

mgrVars == <<self, heap, returned, lastOp>>

VARIABLES
    mw_pc,        \* position inside LogRequestMiddleware.__call__
    mw_request,   \* the request being handled
    mw_inner,     \* what get_response did: returned a response or raised
    mw_response,  \* the local variable response of __call__
    mw_logged,    \* the messages passed to logger.info during this call
    mw_raised,    \* the exception in flight in __call__, if any
    mw_outcome    \* how __call__ ended

mwVars == <<mw_pc, mw_request, mw_inner, mw_response, mw_logged, mw_raised,
            mw_outcome>>

VARIABLES
    ip_meta,      \* request.META given to get_client_ip
    ip_default,   \* the default argument
    ip_pc,        \* "ready" before the call, "done" after it
    ip_result     \* the value get_client_ip returned

ipVars == <<ip_meta, ip_default, ip_pc, ip_result>>

vars == <<mgrVars, mwVars, ipVars>>

-----------------------------------------------------------------------------
(* Bounds of the model.                                                    *)

\* The caller reads .config at most this many times.
MaxReads == 2

\* Longest X-Forwarded-For value given to get_client_ip.
MaxLen == 3

-----------------------------------------------------------------------------
(* Python dicts.                                                           *)

EmptyDict == <<>>

DictKeys(d) == [i \in 1..Len(d) |-> d[i].k]

DictHas(d, key) == \E i \in 1..Len(d) : d[i].k = key

DictGet(d, key) == d[CHOOSE i \in 1..Len(d) : d[i].k = key].v

\* d[key] = value: an existing key keeps its place, a new key goes last.
DictSet(d, key, value) ==
    IF DictHas(d, key)
    THEN [i \in 1..Len(d) |-> IF d[i].k = key THEN [k |-> key, v |-> value]
                                               ELSE d[i]]
    ELSE Append(d, [k |-> key, v |-> value])

\* Optional[str] in the builder.
None == <<>>
Some(s) == <<s>>

\* bool(x) for an Optional[str]: None and '' are falsy.
OptTruthy(x) == x # None /\ x[1] # ""

\* `a or b` on Optional[str] values.
OptOr(a, b) == IF OptTruthy(a) THEN a ELSE b

\* The elements of a sequence.
Range(s) == {s[i] : i \in 1..Len(s)}

-----------------------------------------------------------------------------
(* manager.py: LogManager.                                                 *)

\* self._config['formatters'], a literal that nothing else refers to.
Formatters ==
    << [k |-> "default",
        v |-> [format |-> "%(levelname)s [%(asctime)s] %(message)s"]],
       [k |-> "basic",
        v |-> [format |-> "%(asctime)s %(levelname)s %(processName)s %(name)s "
                          \o "%(message)s"]],
       [k |-> "full",
        v |-> [format |-> "%(asctime)s %(levelname)s %(processName)s %(name)s  "
                          \o "%(filename)s:%(lineno)d %(message)s"]],
       [k |-> "db",
        v |-> [format |-> "[%(asctime)s]\n%(message)s\n"]] >>

\* os.path.join(directory, name) for a directory that does not end in '/'
\* (the directories the model draws do not).
PathJoin(directory, name) == directory \o "/" \o name

\* LogManager._add_file_handler. os.path.exists / os.makedirs act on the file
\* system only and are not part of the state.
add_file_handler(s, hp, formatter) ==
    [hp EXCEPT ![s.handlers] =
        DictSet(@, "file",
                [class |-> "logging.handlers.TimedRotatingFileHandler",
                 formatter |-> formatter,
                 filename |-> PathJoin(s.log_dir[1], s.app_name \o ".log"),
                 when |-> "midnight"])]

\* _add_cloudwatch_handler storing its handler under the file handler's key.
add_cloudwatch_handler_AsFile(s, hp, formatter) ==
    [hp EXCEPT ![s.handlers] =
        DictSet(@, "file",
                [class |-> "watchtower.CloudWatchLogHandler",
                 formatter |-> formatter,
                 log_group |-> s.log_group[1],
                 stream_name |-> s.app_name \o "-{strftime:%Y-%m-%d}",
                 use_queues |-> TRUE,
                 create_log_group |-> FALSE])]

\* LogManager._add_cloudwatch_handler.
add_cloudwatch_handler(s, hp, formatter) ==
    [hp EXCEPT ![s.handlers] =
        DictSet(@, "cloudwatch",
                [class |-> "watchtower.CloudWatchLogHandler",
                 formatter |-> formatter,
                 log_group |-> s.log_group[1],
                 stream_name |-> s.app_name \o "-{strftime:%Y-%m-%d}",
                 use_queues |-> TRUE,
                 create_log_group |-> FALSE])]

\* LogManager.__init__: the attributes and the heap it leaves.
LogManager_init(cls, app_name, log_level, log_group, log_dir) ==
    LET s == [cls |-> cls,
              app_name |-> app_name,
              log_dir |-> log_dir,
              log_group |-> log_group,
              default_log_level |-> log_level,
              config |-> "config",
              handlers |-> "handlers",
              loggers |-> "loggers"]
        hp0 == ("config" :> [version |-> 1,
                             disable_existing_loggers |-> FALSE,
                             formatters |-> Formatters,
                             handlers |-> "config.handlers",
                             loggers |-> "config.loggers"])
               @@ ("config.handlers" :> EmptyDict)
               @@ ("config.loggers" :> EmptyDict)
               @@ ("handlers" :>
                      << [k |-> "console",
                          v |-> [class |-> "logging.StreamHandler",
                                 formatter |-> "basic"]] >>)
        hp1 == IF OptTruthy(s.log_dir)
               THEN add_file_handler(s, hp0, "full") ELSE hp0
        hp2 == IF OptTruthy(s.log_group)
               THEN add_cloudwatch_handler(s, hp1, "full") ELSE hp1
    IN  [self |-> s, heap |-> hp2 @@ ("loggers" :> EmptyDict)]

\* add_logger keeping the level of the entry it overwrites when it is given
\* none (a merge instead of an overwrite).
add_logger_Merge(s, hp, logger, level, propagate) ==
    [hp EXCEPT ![s.loggers] =
        DictSet(@, logger,
                [propagate |-> propagate,
                 handlers |-> DictKeys(hp[s.handlers]),
                 level |-> IF ~OptTruthy(level) /\ DictHas(@, logger)
                           THEN DictGet(@, logger).level
                           ELSE OptOr(level, s.default_log_level)])]

\* add_logger listing the handlers of the stored base configuration, which
\* are not the manager's handlers until config has been read.
add_logger_BaseHandlers(s, hp, logger, level, propagate) ==
    [hp EXCEPT ![s.loggers] =
        DictSet(@, logger,
                [propagate |-> propagate,
                 handlers |-> DictKeys(hp[hp[s.config].handlers]),
                 level |-> OptOr(level, s.default_log_level)])]

\* LogManager.add_logger: the heap after self._loggers[logger] = {...}.
add_logger(s, hp, logger, level, propagate) ==
    [hp EXCEPT ![s.loggers] =
        DictSet(@, logger,
                [propagate |-> propagate,
                 handlers |-> DictKeys(hp[s.handlers]),
                 level |-> OptOr(level, s.default_log_level)])]

\* config without config['handlers'] = self._handlers.
config_NoHandlers(s, hp) ==
    [heap |-> [hp EXCEPT ![s.config].loggers = s.loggers], value |-> s.config]

\* config without config['loggers'] = self._loggers.
config_NoLoggers(s, hp) ==
    [heap |-> [hp EXCEPT ![s.config].handlers = s.handlers], value |-> s.config]

\* config storing copies, dict(self._handlers) and dict(self._loggers), in the
\* base configuration instead of the manager's own dicts.
config_Copy(s, hp) ==
    [heap |-> [hp EXCEPT ![hp[s.config].handlers] = hp[s.handlers],
                         ![hp[s.config].loggers] = hp[s.loggers]],
     value |-> s.config]

\* The config property: the heap after the two assignments, and the reference
\* it returns.
config(s, hp) ==
    LET c == s.config
        hp1 == [hp EXCEPT ![c].handlers = s.handlers]
        hp2 == [hp1 EXCEPT ![c].loggers = s.loggers]
    IN  [heap |-> hp2, value |-> c]

-----------------------------------------------------------------------------
(* manager.py: DefaultLogManager.                                          *)

\* The default loggers of DefaultLogManager.__init__.
DefaultLoggers ==
    << "django.server", "django.request", "django.security.*", "django.db",
       "celery", "celery.worker", "celery.app", "app" >>

\* DefaultLogManager._add_loggers: add_logger(logger) for each, in order.
RECURSIVE add_loggers(_, _, _)
add_loggers(s, hp, loggers) ==
    IF loggers = <<>> THEN hp
    ELSE add_loggers(s, add_logger(s, hp, Head(loggers), None, FALSE),
                     Tail(loggers))

\* DefaultLogManager.__init__; loggers is None (<<>>) or a list (<<list>>).
DefaultLogManager_init(app_name, log_level, log_group, log_dir, loggers) ==
    LET base == LogManager_init("DefaultLogManager", app_name, log_level,
                                log_group, log_dir)
        hp1 == add_loggers(base.self, base.heap, DefaultLoggers)
        hp2 == IF loggers # <<>> /\ loggers[1] # <<>>
               THEN add_loggers(base.self, hp1, loggers[1]) ELSE hp1
    IN  [self |-> base.self, heap |-> hp2]

-----------------------------------------------------------------------------
(* The builder as a state machine.                                         *)

\* Constructor arguments the model draws.
AppNames == {"svc"}
LogLevels == {None, Some("INFO")}
LogGroups == {None, Some(""), Some("grp")}
LogDirs == {None, Some(""), Some("/var/log/svc")}
CustomLoggers == {None, Some(<<>>), Some(<<"x">>)}

\* add_logger arguments the model draws ("app" is also a default logger).
LoggerNames == {"x", "app"}
LevelArgs == {None, Some(""), Some("DEBUG")}

\* The configuration a reference leads to, with the dicts it shares written
\* out: what a reader of the returned dict sees at this moment.
View(hp, ref) ==
    [version |-> hp[ref].version,
     disable_existing_loggers |-> hp[ref].disable_existing_loggers,
     formatters |-> hp[ref].formatters,
     handlers |-> hp[hp[ref].handlers],
     loggers |-> hp[hp[ref].loggers]]

\* The state after LogManager(...) or DefaultLogManager(...).
MgrInit ==
    /\ \E app_name \in AppNames, log_level \in LogLevels,
          log_group \in LogGroups, log_dir \in LogDirs :
          \/ LET m == LogManager_init("LogManager", app_name, log_level,
                                      log_group, log_dir)
             IN  self = m.self /\ heap = m.heap
          \/ \E loggers \in CustomLoggers :
                LET m == DefaultLogManager_init(app_name, log_level,
                                                log_group, log_dir, loggers)
                IN  self = m.self /\ heap = m.heap
    /\ returned = <<>>
    /\ lastOp = [op |-> "init"]

\* A call of add_logger.
AddLogger ==
    /\ \E logger \in LoggerNames, level \in LevelArgs, propagate \in BOOLEAN :
          /\ heap' = add_logger(self, heap, logger, level, propagate)
          /\ lastOp' = [op |-> "add_logger", logger |-> logger,
                        level |-> level, propagate |-> propagate,
                        existed |-> DictHas(heap[self.loggers], logger)]
    /\ UNCHANGED <<self, returned>>
    /\ UNCHANGED <<mwVars, ipVars>>

\* A read of the config property; the caller keeps the reference it got.
ReadConfig ==
    /\ Len(returned) < MaxReads
    /\ LET r == config(self, heap)
       IN  /\ heap' = r.heap
           /\ returned' = Append(returned, r.value)
    /\ lastOp' = [op |-> "config"]
    /\ UNCHANGED self
    /\ UNCHANGED <<mwVars, ipVars>>

\* The middleware and get_client_ip are not running.
MwIdle ==
    /\ mw_pc = "idle"
    /\ mw_request = <<>>
    /\ mw_inner = <<>>
    /\ mw_response = <<>>
    /\ mw_logged = <<>>
    /\ mw_raised = <<>>
    /\ mw_outcome = <<>>

IpIdle ==
    /\ ip_meta = <<>>
    /\ ip_default = <<>>
    /\ ip_pc = "idle"
    /\ ip_result = <<>>

Init == MgrInit /\ MwIdle /\ IpIdle

Next == AddLogger \/ ReadConfig

Spec == Init /\ [][Next]_vars

-----------------------------------------------------------------------------
(* Properties of the builder.                                              *)

\* A constructor argument counts as given when it is a non-empty string: the
\* constructor tests `if self._log_dir:` and `if self._log_group:`.
Given(x) == x \notin {None, Some("")}

\* The handler names the constructor arguments call for, in order.
ExpectedHandlers ==
    <<"console">>
    \o (IF Given(self.log_dir) THEN <<"file">> ELSE <<>>)
    \o (IF Given(self.log_group) THEN <<"cloudwatch">> ELSE <<>>)

\* The manager's handler and logger-route mappings.
Handlers == heap[self.handlers]
Loggers == heap[self.loggers]

\* Every handler a route lists is defined, and so is every formatter a handler
\* names.
CrossRefOK(cfg) ==
    /\ \A i \in 1..Len(cfg.loggers) :
          \A h \in Range(cfg.loggers[i].v.handlers) : DictHas(cfg.handlers, h)
    /\ \A i \in 1..Len(cfg.handlers) :
          DictHas(cfg.formatters, cfg.handlers[i].v.formatter)

\* C1: every configuration that config returned satisfies the cross-reference
\* invariant, at the time of the read and after any later add_logger call:
\* each handler name in a logger route is a key of the handler mapping and
\* each formatter name in a handler is a key of the formatter mapping.
C1_CrossReference ==
    \A i \in DOMAIN returned : CrossRefOK(View(heap, returned[i]))

\* A configuration was returned that has three handlers and routes naming them,
\* and a route was added after it was returned.
C1_Witness ==
    /\ returned # <<>>
    /\ lastOp.op = "add_logger"
    /\ Len(View(heap, returned[1]).handlers) = 3
    /\ Len(View(heap, returned[1]).loggers) >= 2

\* C2: in every state the handler mapping (the manager's, and the one in every
\* returned configuration) holds exactly console, then file iff log_dir was
\* given, then cloudwatch iff log_group was given, each once.
C2_HandlerSet ==
    /\ DictKeys(Handlers) = ExpectedHandlers
    /\ \A i \in DOMAIN returned :
          DictKeys(View(heap, returned[i]).handlers) = ExpectedHandlers

\* Both destinations were given, and the manager has since been used.
C2_Witness ==
    /\ Given(self.log_dir) /\ Given(self.log_group)
    /\ DictKeys(Handlers) = <<"console", "file", "cloudwatch">>
    /\ returned # <<>>
    /\ Len(Loggers) >= 1

\* The route a call add_logger(logger, level, propagate) writes.
RouteOf(level, propagate) ==
    [propagate |-> propagate,
     handlers |-> DictKeys(Handlers),
     level |-> IF level \in {None, Some("")} THEN self.default_log_level
               ELSE level]

\* The number of routes a mapping holds for a name.
RouteCount(d, name) == Cardinality({i \in 1..Len(d) : d[i].k = name})

\* C5: add_logger is last-write-wins per name. Right after a call there is
\* exactly one route for its name and it holds that call's values alone (the
\* level is the call's level, or the default level when the call gave none);
\* and the call leaves the routes of all other names as they were.
C5_LastWriteWins ==
    /\ [](lastOp.op = "add_logger" =>
            /\ RouteCount(Loggers, lastOp.logger) = 1
            /\ DictGet(Loggers, lastOp.logger)
                 = RouteOf(lastOp.level, lastOp.propagate))
    /\ [][lastOp'.op = "add_logger" =>
            \A n \in (Range(DictKeys(Loggers)) \cup Range(DictKeys(Loggers')))
                        \ {lastOp'.logger} :
                /\ DictHas(Loggers, n) /\ DictHas(Loggers', n)
                /\ DictGet(Loggers', n) = DictGet(Loggers, n)]_vars

\* add_logger("x", level="DEBUG", propagate=True) has just overwritten an
\* earlier route for "x", and another name has a route too.
C5_Witness ==
    /\ lastOp.op = "add_logger"
    /\ lastOp.logger = "x" /\ lastOp.level = Some("DEBUG")
    /\ lastOp.propagate = TRUE /\ lastOp.existed
    /\ self.cls = "LogManager"
    /\ self.default_log_level = Some("INFO")
    /\ DictHas(Loggers, "app")

\* C6: in every state every logger route's handler list is the full list of
\* the handler mapping's keys, for routes added by add_logger and for routes
\* seeded by DefaultLogManager's constructor.
C6_RoutesListAllHandlers ==
    \A i \in 1..Len(Loggers) : Loggers[i].v.handlers = DictKeys(Handlers)

\* A DefaultLogManager with three handlers, its seeded routes and a route
\* added later.
C6_Witness ==
    /\ self.cls = "DefaultLogManager"
    /\ Len(Handlers) = 3
    /\ lastOp.op = "add_logger" /\ ~lastOp.existed
    /\ Len(Loggers) = Len(DefaultLoggers) + 1

\* A step that reads config / that calls add_logger.
IsRead == Len(returned') = Len(returned) + 1
IsAdd == lastOp'.op = "add_logger"

\* C3 as stated: a returned configuration is a snapshot. A later add_logger
\* call does not change a configuration returned earlier, and a configuration
\* read right after add_logger added a new name differs from every
\* configuration returned before that call.
C3_Snapshot ==
    [][/\ IsAdd => \A i \in DOMAIN returned :
                      View(heap', returned[i]) = View(heap, returned[i])
       /\ (IsRead /\ lastOp.op = "add_logger" /\ ~lastOp.existed) =>
             \A i \in DOMAIN returned :
                View(heap', returned[i])
                  # View(heap', returned'[Len(returned')])]_vars

\* C3 amended: config returns the manager's stored configuration itself, with
\* the manager's own handler and route dicts in it. So every configuration
\* ever returned is that one object and shows, in every later state, the
\* manager's current handlers and routes: nothing is cached, and routes added
\* after the read appear in it too.
C3_LiveReference ==
    \A i \in DOMAIN returned :
        /\ returned[i] = self.config
        /\ View(heap, returned[i]).handlers = Handlers
        /\ View(heap, returned[i]).loggers = Loggers

\* Two configurations were returned and a route for a new name was added after
\* both.
C3_Witness ==
    /\ Len(returned) = 2
    /\ lastOp.op = "add_logger" /\ ~lastOp.existed
    /\ DictHas(View(heap, returned[1]).loggers, lastOp.logger)

\* C4 as stated: a read of config changes nothing the manager stores.
C4_PureRead ==
    [][IsRead => UNCHANGED <<self, heap>>]_vars

\* C4 amended: a read of config leaves the manager's attributes, its handler
\* mapping and its logger-route mapping unchanged and creates no object; its
\* one effect on stored state is to set the handlers and loggers entries of
\* the stored base configuration to the manager's handler and route dicts, so
\* a read after the first changes nothing at all.
C4_ReadRebindsBaseOnly ==
    [][IsRead =>
         /\ self' = self
         /\ DOMAIN heap' = DOMAIN heap
         /\ \A o \in DOMAIN heap \ {self.config} : heap'[o] = heap[o]
         /\ heap'[self.config] = [heap[self.config] EXCEPT
                                     !.handlers = self.handlers,
                                     !.loggers = self.loggers]
         /\ (returned # <<>> => heap' = heap)]_vars

\* config has been read twice, the second read just now, with routes present.
C4_Witness ==
    /\ Len(returned) = 2
    /\ lastOp.op = "config"
    /\ heap[self.config].loggers = self.loggers
    /\ Len(Loggers) >= 1

-----------------------------------------------------------------------------
(* Python values of the middleware.                                        *)

\* A str is a sequence of one-character strings. Values whose type varies
\* are tagged records.
NoneValue == [type |-> "NoneType"]
StrValue(s) == [type |-> "str", v |-> s]
IntValue(n) == [type |-> "int", v |-> n]

\* An object with an id attribute, as request.user (a User, or an
\* AnonymousUser whose id is None).
UserObject(id) == [type |-> "User", id |-> id]

\* A response object with a status_code attribute.
ResponseObject(status_code) ==
    [type |-> "HttpResponse", status_code |-> status_code]

\* An exception instance, told apart by the place that raised it.
ExceptionObject(cls, origin) ==
    [type |-> "Exception", cls |-> cls, origin |-> origin]

\* bool(x).
py_bool(x) ==
    CASE x.type = "NoneType" -> FALSE
      [] x.type = "str" -> x.v # <<>>
      [] x.type = "int" -> x.v # 0
      [] OTHER -> TRUE

\* `a or b`.
py_or(a, b) == IF py_bool(a) THEN a ELSE b

\* The decimal digits of a natural number.
RECURSIVE Digits(_)
Digits(n) ==
    LET d == <<"0", "1", "2", "3", "4", "5", "6", "7", "8", "9">>
    IN  IF n < 10 THEN <<d[n + 1]>> ELSE Digits(n \div 10) \o <<d[(n % 10) + 1]>>

\* str(x), also what an f-string makes of x.
py_str(x) ==
    CASE x.type = "NoneType" -> <<"N", "o", "n", "e">>
      [] x.type = "str" -> x.v
      [] x.type = "int" -> IF x.v < 0 THEN <<"-">> \o Digits(-x.v)
                           ELSE Digits(x.v)

\* The characters str.strip() removes.
Whitespace == {" ", "\t", "\n", "\r", "\f"}

RECURSIVE lstrip(_)
lstrip(s) ==
    IF s # <<>> /\ Head(s) \in Whitespace THEN lstrip(Tail(s)) ELSE s

RECURSIVE rstrip(_)
rstrip(s) ==
    IF s # <<>> /\ s[Len(s)] \in Whitespace
    THEN rstrip(SubSeq(s, 1, Len(s) - 1)) ELSE s

\* s.strip().
strip(s) == rstrip(lstrip(s))

\* s.split(sep) for a one-character separator: the list of the pieces.
RECURSIVE split(_, _)
split(s, sep) ==
    IF \E i \in 1..Len(s) : s[i] = sep
    THEN LET i == CHOOSE j \in 1..Len(s) :
                     s[j] = sep /\ \A m \in 1..(j - 1) : s[m] # sep
         IN  <<SubSeq(s, 1, i - 1)>> \o split(SubSeq(s, i + 1, Len(s)), sep)
    ELSE <<s>>

\* sep.join(parts).
RECURSIVE join(_, _)
join(sep, parts) ==
    IF parts = <<>> THEN <<>>
    ELSE IF Len(parts) = 1 THEN parts[1]
    ELSE parts[1] \o sep \o join(sep, Tail(parts))

\* d.get(key, default) for a dict given as a function on its keys.
dict_get(d, key, default) == IF key \in DOMAIN d THEN d[key] ELSE default

-----------------------------------------------------------------------------
(* middleware.py: get_client_ip.                                           *)

\* get_client_ip taking the last entry of X-Forwarded-For instead of the first.
get_client_ip_LastHop(request, default) ==
    LET x_forwarded_for ==
            py_or(dict_get(request.META, "HTTP_X_FORWARDED_FOR", NoneValue),
                  StrValue(<<>>)).v
        pieces == split(x_forwarded_for, ",")
        ip_address ==
            IF strip(x_forwarded_for) # <<>>
            THEN py_str(StrValue(pieces[Len(pieces)]))
            ELSE py_str(dict_get(request.META, "REMOTE_ADDR", default))
    IN  strip(ip_address)

\* get_client_ip(request, default); default is a tagged value.
get_client_ip(request, default) ==
    LET x_forwarded_for ==
            py_or(dict_get(request.META, "HTTP_X_FORWARDED_FOR", NoneValue),
                  StrValue(<<>>)).v
        ip_address ==
            IF strip(x_forwarded_for) # <<>>
            THEN py_str(StrValue(split(x_forwarded_for, ",")[1]))
            ELSE py_str(dict_get(request.META, "REMOTE_ADDR", default))
    IN  strip(ip_address)

-----------------------------------------------------------------------------
(* middleware.py: LogRequestMiddleware.                                    *)

NO_VALUE_MARKER == <<"-">>

\* The status code logged when there is no response.
FallbackStatus == 500

\* LogRequestMiddleware._get_value.
get_value(request, key) ==
    dict_get(request.META, key, StrValue(NO_VALUE_MARKER))

\* LogRequestMiddleware._get_user_id: the value returned, or the
\* AttributeError of reading request.user on a request that has no such
\* attribute.
get_user_id(request) ==
    IF "user" \notin DOMAIN request
    THEN [ok |-> FALSE,
          exc |-> ExceptionObject("AttributeError", "_log_request")]
    ELSE LET user_id == IF py_bool(request.user) THEN request.user.id
                        ELSE NoneValue
         IN  [ok |-> TRUE, value |-> py_or(user_id, StrValue(NO_VALUE_MARKER))]

\* The list _log_request joins, given the user id.
log_parts(request, response, user_id) ==
    LET client_ip == get_client_ip(request, StrValue(NO_VALUE_MARKER))
        remote_addr == get_value(request, "REMOTE_ADDR")
        x_forwarded_for == get_value(request, "HTTP_X_FORWARDED_FOR")
        user_agent == get_value(request, "HTTP_USER_AGENT")
        method == get_value(request, "REQUEST_METHOD")
        path == get_value(request, "PATH_INFO")
        status_code == IF py_bool(response) THEN IntValue(response.status_code)
                       ELSE IntValue(FallbackStatus)
    IN  << client_ip,
           py_str(remote_addr) \o <<",">> \o py_str(x_forwarded_for),
           <<"\"">> \o py_str(method) \o <<" ">> \o py_str(path) \o <<"\"">>,
           py_str(user_id),
           py_str(status_code),
           <<"\"">> \o py_str(user_agent) \o <<"\"">> >>

\* LogRequestMiddleware._log_request: the records handed to logger.info, and
\* the exception it raised, if any. request.user is read before logger.info
\* is called.
log_request(request, response) ==
    LET uid == get_user_id(request)
    IN  IF ~uid.ok
        THEN [ok |-> FALSE, exc |-> uid.exc, logged |-> <<>>]
        ELSE LET parts == log_parts(request, response, uid.value)
             IN  [ok |-> TRUE,
                  logged |-> << [level |-> "INFO",
                                 msg |-> join(<<" ">>, parts),
                                 parts |-> parts] >>]

-----------------------------------------------------------------------------
(* The middleware as a state machine.                                      *)

\* A value that may be missing: <<>> when missing, <<v>> when present.
Maybe(values) == {<<>>} \cup {<<v>> : v \in values}

\* request.META with the keys that are present.
MakeMeta(xff, remote_addr, user_agent, method, path) ==
    LET given == [HTTP_X_FORWARDED_FOR |-> xff, REMOTE_ADDR |-> remote_addr,
                  HTTP_USER_AGENT |-> user_agent, REQUEST_METHOD |-> method,
                  PATH_INFO |-> path]
    IN  [key \in {k \in DOMAIN given : given[k] # <<>>} |->
            StrValue(given[key][1])]

\* A request: META, and the user attribute when the request has one.
MakeRequest(meta, user) ==
    IF user = <<>> THEN [META |-> meta] ELSE [META |-> meta, user |-> user[1]]

\* Header and environ values the model draws.
XffValues ==
    { <<>>, <<" ">>, <<",", "7">>, <<"1", ",", "2">>,
      <<" ", "1", " ", ",", "2">> }
RemoteAddrValues == { <<>>, <<"9">> }
UserAgentValues == { <<"M">> }
MethodValues == { <<"G", "E", "T">> }
PathValues == { <<"/", "h">> }

\* request.user: no user, an anonymous user (id None), users with id 0 and 7.
UserValues ==
    { NoneValue, UserObject(NoneValue), UserObject(IntValue(0)),
      UserObject(IntValue(7)) }

\* What get_response does: it returns a response or raises.
InnerOutcomes ==
    { [kind |-> "returned", value |-> ResponseObject(200)],
      [kind |-> "returned", value |-> ResponseObject(404)],
      [kind |-> "raised",
       exc |-> ExceptionObject("ValueError", "get_response")] }

Requests ==
    { MakeRequest(MakeMeta(xff, ra, ua, m, p), u) :
        xff \in Maybe(XffValues), ra \in Maybe(RemoteAddrValues),
        ua \in Maybe(UserAgentValues), m \in Maybe(MethodValues),
        p \in Maybe(PathValues), u \in Maybe(UserValues) }

\* No manager is under construction while the middleware runs.
MgrIdle ==
    /\ self = <<>>
    /\ heap = <<>>
    /\ returned = <<>>
    /\ lastOp = <<>>

\* __call__ is entered: response = None. The middleware keeps nothing from
\* one request to the next, so a behaviour follows one request.
Call ==
    /\ mw_pc = "idle"
    /\ \E request \in Requests : mw_request' = request
    /\ mw_response' = NoneValue
    /\ mw_inner' = <<>>
    /\ mw_logged' = <<>>
    /\ mw_raised' = NoneValue
    /\ mw_outcome' = <<>>
    /\ mw_pc' = "try"
    /\ UNCHANGED <<mgrVars, ipVars>>

\* try: response = self.get_response(request).
GetResponse ==
    /\ mw_pc = "try"
    /\ \E inner \in InnerOutcomes :
          /\ mw_inner' = inner
          /\ IF inner.kind = "returned"
             THEN mw_response' = inner.value /\ UNCHANGED mw_raised
             ELSE mw_raised' = inner.exc /\ UNCHANGED mw_response
    /\ mw_pc' = "finally"
    /\ UNCHANGED <<mw_request, mw_logged, mw_outcome>>
    /\ UNCHANGED <<mgrVars, ipVars>>

\* finally: self._log_request(request, response). An exception raised here
\* takes the place of the one in flight.
Finally ==
    /\ mw_pc = "finally"
    /\ LET r == log_request(mw_request, mw_response)
       IN  /\ mw_logged' = mw_logged \o r.logged
           /\ mw_raised' = IF r.ok THEN mw_raised ELSE r.exc
    /\ mw_pc' = "exit"
    /\ UNCHANGED <<mw_request, mw_inner, mw_response, mw_outcome>>
    /\ UNCHANGED <<mgrVars, ipVars>>

\* __call__ ends: the exception in flight propagates, or response is returned.
Exit ==
    /\ mw_pc = "exit"
    /\ mw_outcome' = IF mw_raised.type = "Exception"
                     THEN [kind |-> "raised", exc |-> mw_raised]
                     ELSE [kind |-> "returned", value |-> mw_response]
    /\ mw_pc' = "done"
    /\ UNCHANGED <<mw_request, mw_inner, mw_response, mw_logged, mw_raised>>
    /\ UNCHANGED <<mgrVars, ipVars>>

InitMiddleware == MgrIdle /\ MwIdle /\ IpIdle

NextMiddleware == Call \/ GetResponse \/ Finally \/ Exit

SpecMiddleware == InitMiddleware /\ [][NextMiddleware]_vars

-----------------------------------------------------------------------------
(* get_client_ip on its own.                                               *)

\* The characters X-Forwarded-For values are drawn from.
Alphabet == {" ", ",", "1", "2"}

\* Every string over Alphabet of length at most n.
StringsUpTo(n) == UNION {[1..m -> Alphabet] : m \in 0..n}

\* X-Forwarded-For values: every short string, and the header of the spec's
\* example, "1.2.3.4, 5.6.7.8".
IpXffValues ==
    StringsUpTo(MaxLen)
    \cup { <<"1", ".", "2", ".", "3", ".", "4", ",", " ",
             "5", ".", "6", ".", "7", ".", "8">> }

IpRemoteAddrValues ==
    { <<>>, <<"9", ".", "9", ".", "9", ".", "9">>, <<" ", "9", " ">> }

IpDefaults == { <<>>, <<"-">>, <<" ", "-">> }

InitClientIp ==
    /\ MgrIdle /\ MwIdle
    /\ \E xff \in Maybe(IpXffValues), ra \in Maybe(IpRemoteAddrValues) :
          ip_meta = MakeMeta(xff, ra, <<>>, <<>>, <<>>)
    /\ ip_default \in IpDefaults
    /\ ip_pc = "ready"
    /\ ip_result = <<>>

\* The call get_client_ip(request, default).
GetClientIp ==
    /\ ip_pc = "ready"
    /\ ip_result' = get_client_ip([META |-> ip_meta], StrValue(ip_default))
    /\ ip_pc' = "done"
    /\ UNCHANGED <<ip_meta, ip_default>>
    /\ UNCHANGED <<mgrVars, mwVars>>

NextClientIp == GetClientIp

SpecClientIp == InitClientIp /\ [][NextClientIp]_vars

-----------------------------------------------------------------------------
(* Properties of the middleware.                                           *)

\* _log_request raised.
LogRequestRaised ==
    /\ mw_raised.type = "Exception"
    /\ mw_raised.origin = "_log_request"

\* C7: one log line per request, after the inner pipeline. Nothing is logged
\* before get_response has returned or raised, never more than one line is
\* logged, and once the finally block has run exactly one line has been
\* logged, whether get_response returned or raised.
C7_ExactlyOneLine ==
    /\ mw_pc \in {"idle", "try"} => mw_logged = <<>>
    /\ Len(mw_logged) <= 1
    /\ mw_pc \in {"exit", "done"} => Len(mw_logged) = 1

\* C7 holds of every request that has a user attribute.
C7_WithUserAttribute ==
    (mw_pc # "idle" /\ "user" \in DOMAIN mw_request) => C7_ExactlyOneLine

\* The status code the claim expects in the log line.
ExpectedStatus ==
    IF mw_inner.kind = "raised" THEN FallbackStatus
    ELSE mw_inner.value.status_code

\* C8: when __call__ has ended, its caller got what get_response produced (the
\* same exception, or the same response), and the line logged carries 500 if
\* get_response raised and the response's status code otherwise.
C8_FailurePassesThrough ==
    mw_pc = "done" =>
        /\ mw_outcome = mw_inner
        /\ Len(mw_logged) = 1
        /\ mw_logged[1].parts[5] = Digits(ExpectedStatus)

\* C8 holds of every request that has a user attribute.
C8_WithUserAttribute ==
    (mw_pc # "idle" /\ "user" \in DOMAIN mw_request) => C8_FailurePassesThrough

\* The text of a META entry in the log line: the marker when it is absent.
Rendered(request, key) ==
    IF key \in DOMAIN request.META THEN request.META[key].v
    ELSE NO_VALUE_MARKER

\* The client IP in the log line: the marker when no address was resolved.
RenderedClientIp(request) ==
    LET ip == get_client_ip(request, StrValue(<<>>))
    IN  IF ip = <<>> THEN NO_VALUE_MARKER ELSE ip

\* The user id in the log line: the marker unless the request carries a user
\* with a truthy id.
RenderedUserId(request) ==
    IF /\ "user" \in DOMAIN request
       /\ request.user.type = "User"
       /\ py_bool(request.user.id)
    THEN py_str(request.user.id)
    ELSE NO_VALUE_MARKER

\* C9: field extraction never fails and each absent field is the marker. Once
\* the finally block has run, _log_request has not raised and the line logged
\* has, independently for each field, the request's value or "-" where the
\* request has none.
C9_AbsentFieldsDegrade ==
    mw_pc \in {"exit", "done"} =>
        /\ ~LogRequestRaised
        /\ Len(mw_logged) = 1
        /\ LET parts == mw_logged[1].parts
               r == mw_request
           IN  /\ parts[1] = RenderedClientIp(r)
               /\ parts[2] = Rendered(r, "REMOTE_ADDR") \o <<",">>
                               \o Rendered(r, "HTTP_X_FORWARDED_FOR")
               /\ parts[3] = <<"\"">> \o Rendered(r, "REQUEST_METHOD") \o <<" ">>
                               \o Rendered(r, "PATH_INFO") \o <<"\"">>
               /\ parts[4] = RenderedUserId(r)
               /\ parts[6] = <<"\"">> \o Rendered(r, "HTTP_USER_AGENT")
                               \o <<"\"">>

\* Apart from the client IP, C9 holds of every request that has a user
\* attribute.
C9_WithUserAttribute ==
    (mw_pc \in {"exit", "done"} /\ "user" \in DOMAIN mw_request) =>
        /\ ~LogRequestRaised
        /\ Len(mw_logged) = 1
        /\ LET parts == mw_logged[1].parts
               r == mw_request
           IN  /\ parts[2] = Rendered(r, "REMOTE_ADDR") \o <<",">>
                               \o Rendered(r, "HTTP_X_FORWARDED_FOR")
               /\ parts[3] = <<"\"">> \o Rendered(r, "REQUEST_METHOD") \o <<" ">>
                               \o Rendered(r, "PATH_INFO") \o <<"\"">>
               /\ parts[4] = RenderedUserId(r)
               /\ parts[6] = <<"\"">> \o Rendered(r, "HTTP_USER_AGENT")
                               \o <<"\"">>

\* The spec's example request: no X-Forwarded-For, REMOTE_ADDR 9, GET /h, no
\* authenticated user, status 200, no User-Agent, is logged as
\* `9 9,- "GET /h" - 200 "-"`.
ExampleLine ==
    (/\ mw_pc = "done"
     /\ mw_request = [META |-> MakeMeta(<<>>, <<<<"9">>>>, <<>>,
                                        <<<<"G", "E", "T">>>>,
                                        <<<<"/", "h">>>>),
                      user |-> UserObject(NoneValue)]
     /\ mw_inner = [kind |-> "returned", value |-> ResponseObject(200)])
    => mw_logged[1].msg
         = << "9", " ", "9", ",", "-", " ", "\"", "G", "E", "T", " ", "/", "h",
              "\"", " ", "-", " ", "2", "0", "0", " ", "\"", "-", "\"" >>

-----------------------------------------------------------------------------
(* Properties of get_client_ip.                                            *)

\* s without the whitespace at its two ends, by position.
Trimmed(s) ==
    LET solid == {i \in 1..Len(s) : s[i] \notin Whitespace}
    IN  IF solid = {} THEN <<>>
        ELSE SubSeq(s, CHOOSE i \in solid : \A j \in solid : i <= j,
                       CHOOSE i \in solid : \A j \in solid : i >= j)

\* The part of s before its first comma (all of s when it has none).
BeforeFirstComma(s) ==
    LET commas == {i \in 1..Len(s) : s[i] = ","}
    IN  IF commas = {} THEN s
        ELSE SubSeq(s, 1, (CHOOSE i \in commas : \A j \in commas : i <= j) - 1)

\* The header is present and not empty once trimmed.
XffUsable ==
    /\ "HTTP_X_FORWARDED_FOR" \in DOMAIN ip_meta
    /\ Trimmed(ip_meta["HTTP_X_FORWARDED_FOR"].v) # <<>>

\* C10 as stated: the result is the trimmed part of X-Forwarded-For before its
\* first comma when the header is usable; otherwise the remote address as it
\* is; and the default as it is when that is absent too.
C10_FallbackChain ==
    ip_pc = "done" =>
        ip_result =
            IF XffUsable
            THEN Trimmed(BeforeFirstComma(ip_meta["HTTP_X_FORWARDED_FOR"].v))
            ELSE IF "REMOTE_ADDR" \in DOMAIN ip_meta
                 THEN ip_meta["REMOTE_ADDR"].v
                 ELSE ip_default

\* C10 amended: as stated, except that the remote address and the default are
\* returned with the whitespace at their ends removed, like the header's
\* entry.
C10_FallbackChainTrimmed ==
    ip_pc = "done" =>
        ip_result =
            IF XffUsable
            THEN Trimmed(BeforeFirstComma(ip_meta["HTTP_X_FORWARDED_FOR"].v))
            ELSE IF "REMOTE_ADDR" \in DOMAIN ip_meta
                 THEN Trimmed(ip_meta["REMOTE_ADDR"].v)
                 ELSE Trimmed(ip_default)

\* The header is whitespace only, there is no remote address, and the default
\* " -" came back as "-".
C10_Witness ==
    /\ ip_pc = "done"
    /\ "HTTP_X_FORWARDED_FOR" \in DOMAIN ip_meta
    /\ ip_meta["HTTP_X_FORWARDED_FOR"].v = <<" ", " ">>
    /\ "REMOTE_ADDR" \notin DOMAIN ip_meta
    /\ ip_default = <<" ", "-">>
    /\ ip_result = <<"-">>

\* The examples of the spec: "1.2.3.4, 5.6.7.8" gives "1.2.3.4"; an empty or
\* whitespace-only header with remote address "9.9.9.9" gives "9.9.9.9".
C10_Examples ==
    ip_pc = "done" =>
        /\ (/\ "HTTP_X_FORWARDED_FOR" \in DOMAIN ip_meta
            /\ Len(ip_meta["HTTP_X_FORWARDED_FOR"].v) = 16)
           => ip_result = <<"1", ".", "2", ".", "3", ".", "4">>
        /\ (/\ ~XffUsable
            /\ "REMOTE_ADDR" \in DOMAIN ip_meta
            /\ Len(ip_meta["REMOTE_ADDR"].v) = 7)
           => ip_result = <<"9", ".", "9", ".", "9", ".", "9">>

=============================================================================
